---- MODULE Spec2Model ----
(***************************************************************************)
(* Model of functionary/train/train.py: the fine-tuning driver train(),    *)
(* initialize_tokenizer, safe_save_model_for_hf_trainer and the two        *)
(* evaluation callbacks preprocess_logits_for_metrics and compute_metrics. *)
(***************************************************************************)
EXTENDS Integers, Sequences, FiniteSets, TLC

VARIABLES
    pc,                 \* position of train() : see the actions below
    error,              \* "none" or the exception that ended the run
    model_max_length,   \* training_args.model_max_length
    train_data_path,    \* data_args.train_data_path
    eval_data_path,     \* data_args.eval_data_path
    do_eval,            \* training_args.do_eval
    config,             \* the AutoConfig object as patched by train()
    config_loaded,      \* the config as from_pretrained returned it (history)
    output_dir,         \* names of the entries of training_args.output_dir
    dir_writes,         \* names this run wrote into output_dir (history)
    opened,             \* paths given to open(), in order
    raw_train_data,     \* "unbound" or "loaded"
    raw_eval_data,      \* "unbound" or "loaded"
    train_dataset,      \* "unbound" or "built"
    eval_dataset,       \* "unbound" or "built"
    trainer,            \* None or the Trainer's keyword arguments
    trainStarts,        \* sequence of calls of trainer.train
    dirAtStart,         \* output_dir as it was when trainer.train was called
    tokenizer,          \* None or the LlamaTokenizer
    input_embeddings,   \* model.get_input_embeddings().weight.data (rows)
    output_embeddings,  \* model.get_output_embeddings().weight.data (rows)
    emb_before,         \* the two matrices before initialize_tokenizer (history)
    num_new_tokens,     \* result of tokenizer.add_special_tokens
    should_save,        \* trainer.args.should_save, per process
    device,             \* device of every tensor of the model, per process
    collected,          \* processes that called trainer.model.state_dict()
    written,            \* per process: None or the state dict given to _save
    eval_preds,         \* the EvalPrediction given to compute_metrics
    metrics,            \* what compute_metrics returned or raised
    logits_in,          \* shapes given to preprocess_logits_for_metrics
    logits_out          \* shapes it returned, or the error it raised

vars == << pc, error, model_max_length, train_data_path, eval_data_path,
           do_eval, config, config_loaded, output_dir, dir_writes, opened,
           raw_train_data, raw_eval_data, train_dataset, eval_dataset,
           trainer, trainStarts, dirAtStart, tokenizer, input_embeddings,
           output_embeddings, emb_before, num_new_tokens, should_save,
           device, collected, written, eval_preds, metrics, logits_in,
           logits_out >>

argVars == << model_max_length, train_data_path, eval_data_path, do_eval >>
cfgVars == << config, config_loaded >>
dataVars == << opened, raw_train_data, raw_eval_data, train_dataset,
               eval_dataset >>
runVars == << trainer, trainStarts, dirAtStart, output_dir, dir_writes >>
tokVars == << tokenizer, input_embeddings, output_embeddings, emb_before,
              num_new_tokens >>
saveVars == << should_save, device, collected, written >>
evalVars == << eval_preds, metrics, logits_in, logits_out >>

\* Python's None for a path; an optional object is << >> or << value >>
None == "None"
Absent == << >>
Some(v) == << v >>

----------------------------------------------------------------------------
(* Bounds of the model *)

\* largest context length, of the model and asked for
MaxCtx == 4
\* processes of a distributed run
NumProcs == 2
\* largest number of tokens (batch x seq_len) of an evaluation
MaxCells == 6
\* largest dimension of a tensor in the model of shapes
MaxDim == 4
\* largest number of rows of a pretrained embedding matrix
MaxBase == 2

Procs == 1..NumProcs

----------------------------------------------------------------------------
(* File names, as sequences of characters *)

CkptPrefix == << "c", "h", "e", "c", "k", "p", "o", "i", "n", "t", "-" >>

\* the pattern of pathlib.Path(output_dir).glob("checkpoint-*")
CheckpointPattern == CkptPrefix \o << "*" >>

CheckpointName == CkptPrefix \o << "5" >>
TrainerStateName == << "t", "r", "a", "i", "n", "e", "r", "_", "s", "t",
                       "a", "t", "e", ".", "j", "s", "o", "n" >>
ModelFileName == << "m", "o", "d", "e", "l", ".", "b", "i", "n" >>

\* entries output_dir may hold before the run
DirNames == { CheckpointName,
              CkptPrefix,
              << "c", "h", "e", "c", "k", "p", "o", "i", "n", "t" >>,
              << "x" >> \o CheckpointName }

\* data files that exist; any other path fails to open
Files == { "train.jsonl", "eval.jsonl" }
TrainPaths == { None, "train.jsonl", "missing.jsonl" }
EvalPaths == { None, "eval.jsonl" }

\* pathlib's matching of one path component against a pattern with "*"
RECURSIVE GlobMatch(_, _)
GlobMatch(pat, name) ==
    IF pat = << >> THEN name = << >>
    ELSE IF Head(pat) = "*"
         THEN GlobMatch(Tail(pat), name)
              \/ (name # << >> /\ GlobMatch(pat, Tail(name)))
         ELSE /\ name # << >>
              /\ Head(pat) = Head(name)
              /\ GlobMatch(Tail(pat), Tail(name))

\* list(pathlib.Path(dir).glob(pattern)), as a set
Glob(dir, pat) == { n \in dir : GlobMatch(pat, n) }

----------------------------------------------------------------------------
(* RoPE scaling, train() lines 106-115 *)

\* a quotient rounded down instead of up
CeilAsFloor(a, b) == a \div b

\* math.ceil(a / b) for a >= 0 and b > 0
Ceil(a, b) == IF a % b = 0 THEN a \div b ELSE (a \div b) + 1

\* the truth value of orig_ctx_len: neither None nor 0
Truthy(x) == x # Absent /\ x[1] # 0

\* lines 111-115 applied to a loaded config
SetRopeScaling(cfg, mml) ==
    LET orig_ctx_len == cfg.max_position_embeddings
        scaled == IF Truthy(orig_ctx_len) /\ mml > orig_ctx_len[1]
                  THEN [cfg EXCEPT !.rope_scaling =
                            Some([type |-> "linear",
                                  factor |-> Ceil(mml, orig_ctx_len[1])])]
                  ELSE cfg
    IN  [scaled EXCEPT !.use_cache = FALSE]

\* what AutoConfig.from_pretrained can return
LoadedConfigs ==
    [ max_position_embeddings : {Absent} \cup { Some(n) : n \in 0..MaxCtx },
      rope_scaling : { Absent, Some([type |-> "dynamic", factor |-> 3]) },
      use_cache : { TRUE } ]

NoConfig == [ max_position_embeddings |-> Absent, rope_scaling |-> Absent,
              use_cache |-> TRUE ]

----------------------------------------------------------------------------
(* initialize_tokenizer, lines 60-97 *)

\* [e.value for e in EndToken]
EndTokenValues == << "<|END_OF_ASSISTANT|>", "<|END_OF_FUNCTION_CALL|>" >>

\* vocabularies LlamaTokenizer.from_pretrained can load: position = token id
BaseVocabs == { << "<unk>", "a" >>,
                << "<unk>", "a", EndTokenValues[1] >>,
                << "<unk>", EndTokenValues[2] >>,
                << "<unk>", EndTokenValues[1], "a", EndTokenValues[2] >> }

\* a weight is a rational n/d; a row of an embedding matrix has two weights
Weight(v) == [n |-> v, d |-> 1]
Row(a, b) == << Weight(a), Weight(b) >>
PretrainedRows == { Row(0, 1), Row(2, 0), Row(1, 1) }
\* values resize_token_embeddings may give a row it adds
FreshRows == { Row(0, 0), Row(2, 2) }

\* LlamaTokenizer.from_pretrained(..., model_max_length, padding_side="right")
FromPretrained(base, mml) ==
    [ vocab |-> base, unk_token |-> "<unk>", pad_token |-> None,
      additional_special_tokens |-> << >>, padding_side |-> "right",
      model_max_length |-> mml ]

\* range of a sequence
Range(f) == { f[i] : i \in DOMAIN f }

\* tokenizer.add_special_tokens({"additional_special_tokens": toks}):
\* the tokens not yet in the vocabulary are appended; returns how many
AddSpecialTokens(tok, toks) ==
    LET IsNew(t) == t \notin Range(tok.vocab)
        new == SelectSeq(toks, IsNew)
    IN  [ tok |-> [tok EXCEPT !.vocab = @ \o new,
                              !.additional_special_tokens = toks],
          num |-> Len(new) ]

\* model.resize_token_embeddings(n) on one matrix; fresh = the rows it adds
ResizeTokenEmbeddings(emb, n, fresh) ==
    IF n <= Len(emb) THEN SubSeq(emb, 1, n) ELSE emb \o fresh

\* number of rows resize_token_embeddings adds
NumFresh(emb, n) == IF n <= Len(emb) THEN 0 ELSE n - Len(emb)

\* emb[:] in place of emb[:-k]
ButLastNothing(emb, k) == emb

\* emb[:-k] for 0 < k <= len(emb)
ButLast(emb, k) == SubSeq(emb, 1, Len(emb) - k)

RECURSIVE SumColumn(_, _)
SumColumn(rows, c) ==
    IF rows = << >> THEN 0 ELSE rows[1][c].n + SumColumn(Tail(rows), c)

\* rows.mean(dim=0, keepdim=True) of rows with integer weights
MeanRow(rows) ==
    [ c \in 1..2 |-> [n |-> SumColumn(rows, c), d |-> Len(rows)] ]

\* emb[-k:] = avg
SetLast(emb, k, avg) ==
    [ i \in 1..Len(emb) |-> IF i > Len(emb) - k THEN avg ELSE emb[i] ]

\* lines 83-95 on one resized matrix
AverageNewRows(emb, k) ==
    IF k > 0 THEN SetLast(emb, k, MeanRow(ButLast(emb, k))) ELSE emb

\* the call initialize_tokenizer(model, name, model_max_length, cache_dir),
\* the pretrained vocabulary being one of vocabs and an added row one of fresh
InitializeTokenizer(vocabs, fresh) ==
    \E base \in vocabs :
        LET tok0 == FromPretrained(base, model_max_length)
            tok1 == [tok0 EXCEPT !.pad_token = tok0.unk_token]
            added == AddSpecialTokens(tok1, EndTokenValues)
            n == Len(added.tok.vocab)
        IN  \E fin \in [1..NumFresh(input_embeddings, n) -> fresh],
               fout \in [1..NumFresh(output_embeddings, n) -> fresh] :
                /\ tokenizer' = Some(added.tok)
                /\ num_new_tokens' = added.num
                /\ emb_before' = << input_embeddings, output_embeddings >>
                /\ input_embeddings' =
                       AverageNewRows(
                           ResizeTokenEmbeddings(input_embeddings, n, fin),
                           added.num)
                /\ output_embeddings' =
                       AverageNewRows(
                           ResizeTokenEmbeddings(output_embeddings, n, fout),
                           added.num)

----------------------------------------------------------------------------
(* safe_save_model_for_hf_trainer, lines 51-57 *)

Keys == { "embed_tokens.weight", "lm_head.weight" }
Devices == { "cuda", "cpu" }

\* trainer.model.state_dict() on process p
StateDict(p) == [ k \in Keys |-> [key |-> k, device |-> device[p][k]] ]

\* value.cpu()
Cpu(t) == [t EXCEPT !.device = "cpu"]

\* every process writes
ShouldSaveAlways(p) == TRUE

\* whether process p writes: trainer.args.should_save
ShouldSave(p) == should_save[p]

\* the call safe_save_model_for_hf_trainer(trainer, output_dir) on process p
SafeSaveModelForHfTrainer(p) ==
    LET state_dict == StateDict(p)
    IN  /\ collected' = collected \cup {p}
        /\ IF ShouldSave(p)
           THEN LET cpu_state_dict == [ k \in Keys |-> Cpu(state_dict[k]) ]
                IN  /\ written' = [written EXCEPT ![p] = Some(cpu_state_dict)]
                    /\ output_dir' = output_dir \cup {ModelFileName}
                    /\ dir_writes' = dir_writes \cup {ModelFileName}
           ELSE UNCHANGED << written, output_dir, dir_writes >>
        /\ UNCHANGED << should_save, device >>

----------------------------------------------------------------------------
(* train(), lines 100-215, one action per step *)

\* an exception leaves train(): the run ends where it is
Raise(exc) == pc' = "failed" /\ error' = exc

\* lines 101-104: parse_args_into_dataclasses
ParseArgs ==
    /\ pc = "parse"
    /\ model_max_length' \in 0..MaxCtx
    /\ train_data_path' \in TrainPaths
    /\ eval_data_path' \in EvalPaths
    /\ do_eval' \in BOOLEAN
    /\ pc' = "config"
    /\ UNCHANGED << error, cfgVars, dataVars, runVars, tokVars, saveVars,
                    evalVars >>

\* lines 107-110: AutoConfig.from_pretrained
LoadConfig ==
    /\ pc = "config"
    /\ \E c \in LoadedConfigs : config' = c /\ config_loaded' = c
    /\ pc' = "rope"
    /\ UNCHANGED << error, argVars, dataVars, runVars, tokVars, saveVars,
                    evalVars >>

\* lines 111-115: the RoPE scaling factor and use_cache
PatchConfig ==
    /\ pc = "rope"
    /\ config' = SetRopeScaling(config, model_max_length)
    /\ pc' = "model"
    /\ UNCHANGED << error, argVars, config_loaded, dataVars, runVars,
                    tokVars, saveVars, evalVars >>

\* lines 117-122: AutoModelForCausalLM.from_pretrained, use_cache again
LoadModel ==
    /\ pc = "model"
    /\ input_embeddings' = << Row(0, 1), Row(2, 0) >>
    /\ output_embeddings' = << Row(1, 1), Row(0, 1) >>
    /\ config' = [config EXCEPT !.use_cache = FALSE]
    /\ pc' = "tokenizer"
    /\ UNCHANGED << error, argVars, config_loaded, dataVars, runVars,
                    tokenizer, emb_before, num_new_tokens, saveVars,
                    evalVars >>

\* lines 124-129
TokenizerStep(vocabs, fresh) ==
    /\ pc = "tokenizer"
    /\ InitializeTokenizer(vocabs, fresh)
    /\ pc' = "assert"
    /\ UNCHANGED << error, argVars, cfgVars, dataVars, runVars, saveVars,
                    evalVars >>

\* line 131 without its assertion
AssertTrainDataSkipped ==
    /\ pc = "assert"
    /\ pc' = "load_train"
    /\ UNCHANGED << error, argVars, cfgVars, dataVars, runVars, tokVars,
                    saveVars, evalVars >>

\* line 131
AssertTrainData ==
    /\ pc = "assert"
    /\ IF train_data_path # None
       THEN pc' = "load_train" /\ UNCHANGED error
       ELSE Raise("AssertionError: Please provide a training data file.")
    /\ UNCHANGED << argVars, cfgVars, dataVars, runVars, tokVars, saveVars,
                    evalVars >>

\* lines 133-135
LoadTrainData ==
    /\ pc = "load_train"
    /\ opened' = Append(opened, train_data_path)
    /\ IF train_data_path \in Files
       THEN /\ raw_train_data' = "loaded"
            /\ pc' = "load_eval"
            /\ UNCHANGED error
       ELSE /\ Raise("FileNotFoundError")
            /\ UNCHANGED raw_train_data
    /\ UNCHANGED << argVars, cfgVars, raw_eval_data, train_dataset,
                    eval_dataset, runVars, tokVars, saveVars, evalVars >>

\* lines 137-140
LoadEvalData ==
    /\ pc = "load_eval"
    /\ IF eval_data_path # None
       THEN /\ opened' = Append(opened, eval_data_path)
            /\ IF eval_data_path \in Files
               THEN /\ raw_eval_data' = "loaded"
                    /\ pc' = "datasets"
                    /\ UNCHANGED error
               ELSE /\ Raise("FileNotFoundError")
                    /\ UNCHANGED raw_eval_data
       ELSE /\ pc' = "datasets"
            /\ UNCHANGED << opened, raw_eval_data, error >>
    /\ UNCHANGED << argVars, cfgVars, raw_train_data, train_dataset,
                    eval_dataset, runVars, tokVars, saveVars, evalVars >>

\* lines 142-151: raw_eval_data is bound only if an eval path was given
BuildDatasets ==
    /\ pc = "datasets"
    /\ train_dataset' = "built"
    /\ IF do_eval
       THEN IF raw_eval_data = "loaded"
            THEN /\ eval_dataset' = "built"
                 /\ pc' = "trainer"
                 /\ UNCHANGED error
            ELSE /\ Raise("UnboundLocalError: raw_eval_data")
                 /\ UNCHANGED eval_dataset
       ELSE /\ pc' = "trainer"
            /\ UNCHANGED << eval_dataset, error >>
    /\ UNCHANGED << argVars, cfgVars, opened, raw_train_data, raw_eval_data,
                    runVars, tokVars, saveVars, evalVars >>

\* lines 192-208: the Trainer; the model moves to the GPU,
\* and the process's rank decides should_save
BuildTrainer ==
    /\ pc = "trainer"
    /\ trainer' = Some([ train_dataset |-> train_dataset,
                         eval_dataset |-> IF do_eval THEN eval_dataset
                                          ELSE "unbound",
                         with_metrics |-> do_eval ])
    /\ \E s \in BOOLEAN : should_save' = [should_save EXCEPT ![1] = s]
    /\ device' = [device EXCEPT ![1] = [k \in Keys |-> "cuda"]]
    /\ pc' = "start"
    /\ UNCHANGED << error, argVars, cfgVars, dataVars, trainStarts,
                    dirAtStart, output_dir, dir_writes, tokVars, collected,
                    written, evalVars >>

\* line 210 with the pattern "checkpoint*"
StartModeNoDash(dir) ==
    IF Glob(dir, SubSeq(CkptPrefix, 1, Len(CkptPrefix) - 1) \o << "*" >>) # {}
    THEN "resume" ELSE "fresh"

\* the argument of trainer.train chosen by line 210
StartMode(dir) ==
    IF Glob(dir, CheckpointPattern) # {} THEN "resume" ELSE "fresh"

\* lines 210-213: trainer.train, which may write checkpoints
StartTraining ==
    /\ pc = "start"
    /\ trainStarts' = Append(trainStarts, StartMode(output_dir))
    /\ dirAtStart' = output_dir
    /\ \E ckpts \in SUBSET {CheckpointName} :
           /\ output_dir' = output_dir \cup ckpts
           /\ dir_writes' = dir_writes \cup ckpts
    /\ pc' = "save_state"
    /\ UNCHANGED << error, argVars, cfgVars, dataVars, trainer, tokVars,
                    saveVars, evalVars >>

\* line 214: trainer.save_state writes on the world's process zero only
SaveState ==
    /\ pc = "save_state"
    /\ \E zero \in BOOLEAN :
           /\ output_dir' = IF zero THEN output_dir \cup {TrainerStateName}
                            ELSE output_dir
           /\ dir_writes' = IF zero THEN dir_writes \cup {TrainerStateName}
                            ELSE dir_writes
    /\ pc' = "final_save"
    /\ UNCHANGED << error, argVars, cfgVars, dataVars, trainer, trainStarts,
                    dirAtStart, tokVars, saveVars, evalVars >>

\* line 215
FinalSave ==
    /\ pc = "final_save"
    /\ SafeSaveModelForHfTrainer(1)
    /\ pc' = "done"
    /\ UNCHANGED << error, argVars, cfgVars, dataVars, trainer, trainStarts,
                    dirAtStart, tokVars, evalVars >>

NoEval == [ predictions |-> << >>, label_ids |-> << >>, losses |-> << >> ]
NoShapes == [ logits |-> << >>, labels |-> << >>, tokenizer_len |-> 0 ]

\* values of the variables a specification does not use
IdleTrain ==
    /\ error = "none"
    /\ model_max_length = 0
    /\ train_data_path = None
    /\ eval_data_path = None
    /\ do_eval = FALSE
    /\ config = NoConfig
    /\ config_loaded = NoConfig
    /\ opened = << >>
    /\ raw_train_data = "unbound"
    /\ raw_eval_data = "unbound"
    /\ train_dataset = "unbound"
    /\ eval_dataset = "unbound"
    /\ trainer = Absent
    /\ trainStarts = << >>
    /\ dirAtStart = {}
    /\ dir_writes = {}

IdleTokenizer ==
    /\ tokenizer = Absent
    /\ input_embeddings = << >>
    /\ output_embeddings = << >>
    /\ emb_before = << << >>, << >> >>
    /\ num_new_tokens = 0

IdleSave ==
    /\ should_save = [p \in Procs |-> FALSE]
    /\ device = [p \in Procs |-> [k \in Keys |-> "cpu"]]
    /\ collected = {}
    /\ written = [p \in Procs |-> Absent]

IdleEval ==
    /\ eval_preds = NoEval
    /\ metrics = [status |-> "none"]
    /\ logits_in = NoShapes
    /\ logits_out = [status |-> "none"]

\* the process before train() is called; output_dir holds anything
Init ==
    /\ pc = "parse"
    /\ output_dir \in SUBSET DirNames
    /\ IdleTrain /\ IdleTokenizer /\ IdleSave /\ IdleEval

Next ==
    \/ ParseArgs
    \/ LoadConfig
    \/ PatchConfig
    \/ LoadModel
    \/ TokenizerStep({ << "<unk>", "a" >>,
                       << "<unk>", "a" >> \o EndTokenValues },
                     { Row(0, 0) })
    \/ AssertTrainData
    \/ LoadTrainData
    \/ LoadEvalData
    \/ BuildDatasets
    \/ BuildTrainer
    \/ StartTraining
    \/ SaveState
    \/ FinalSave

Spec == Init /\ [][Next]_vars

----------------------------------------------------------------------------
(* initialize_tokenizer on every small model and vocabulary *)

InitTok ==
    /\ pc = "tokenizer"
    /\ output_dir = {}
    /\ IdleTrain /\ IdleSave /\ IdleEval
    /\ tokenizer = Absent
    /\ emb_before = << << >>, << >> >>
    /\ num_new_tokens = 0
    /\ \E r \in 1..MaxBase :
           /\ input_embeddings \in [1..r -> PretrainedRows]
           /\ output_embeddings \in [1..r -> PretrainedRows]

NextTok == TokenizerStep(BaseVocabs, FreshRows)

SpecTok == InitTok /\ [][NextTok]_vars

----------------------------------------------------------------------------
(* safe_save_model_for_hf_trainer called by every process of a run *)

InitSave ==
    /\ pc = "multi"
    /\ output_dir = {}
    /\ IdleTrain /\ IdleTokenizer /\ IdleEval
    /\ should_save \in [Procs -> BOOLEAN]
    /\ device \in [Procs -> [Keys -> Devices]]
    /\ collected = {}
    /\ written = [p \in Procs |-> Absent]

\* line 215 on process p
ProcSave(p) ==
    /\ pc = "multi"
    /\ p \notin collected
    /\ SafeSaveModelForHfTrainer(p)
    /\ UNCHANGED << pc, error, argVars, cfgVars, dataVars, trainer,
                    trainStarts, dirAtStart, tokVars, evalVars >>

NextSave == \E p \in Procs : ProcSave(p)

SpecSave == InitSave /\ [][NextSave]_vars

----------------------------------------------------------------------------
(* compute_metrics, lines 169-190 *)

\* the label the loss and the accuracy ignore
IgnoreIndex == -100

PredIds == { 0, 1 }
LabelIds == { IgnoreIndex, 0, 1 }

\* shapes (batch, seq_len) of an evaluation
EvalShapes ==
    { sh \in (1..MaxCells) \X (1..MaxCells) : sh[1] * sh[2] <= MaxCells }

\* row[:-1]
DropLast(row) == SubSeq(row, 1, Len(row) - 1)

\* row[1:]
DropFirst(row) == SubSeq(row, 2, Len(row))

\* eval_preds.predictions[0][:, :-1]
ShiftPredictions(P) == [ b \in DOMAIN P |-> DropLast(P[b]) ]

\* label_ids[:, :-1] in place of label_ids[:, 1:]
ShiftLabelsNot(L) == [ b \in DOMAIN L |-> DropLast(L[b]) ]

\* eval_preds.label_ids[:, 1:]
ShiftLabels(L) == [ b \in DOMAIN L |-> DropFirst(L[b]) ]

\* matrix.flatten().tolist()
RECURSIVE Flatten(_)
Flatten(m) == IF m = << >> THEN << >> ELSE Head(m) \o Flatten(Tail(m))

\* list(zip(a, b))
Zip(a, b) ==
    LET n == IF Len(a) <= Len(b) THEN Len(a) ELSE Len(b)
    IN  [ i \in 1..n |-> << a[i], b[i] >> ]

\* the loop of lines 175-183: << acc_count, total_num >>
RECURSIVE CountAccuracy(_, _, _)
CountAccuracy(pairs, acc_count, total_num) ==
    IF pairs = << >> THEN << acc_count, total_num >>
    ELSE LET pred == pairs[1][1]
             label == pairs[1][2]
         IN  IF label # IgnoreIndex
             THEN CountAccuracy(Tail(pairs),
                                IF label = pred THEN acc_count + 1
                                ELSE acc_count,
                                total_num + 1)
             ELSE CountAccuracy(Tail(pairs), acc_count, total_num)

RECURSIVE SumSeq(_)
SumSeq(q) == IF q = << >> THEN 0 ELSE Head(q) + SumSeq(Tail(q))

\* compute_metrics(eval_preds): a quotient a / b is kept as << a, b >>, and
\* math.exp(x) as its argument
ComputeMetrics(ep) ==
    LET predictions == ShiftPredictions(ep.predictions)
        labels == ShiftLabels(ep.label_ids)
        counts == CountAccuracy(Zip(Flatten(predictions), Flatten(labels)),
                                0, 0)
        loss == ep.losses
    IN  IF Len(loss) = 0 \/ counts[2] = 0
        THEN [ status |-> "ZeroDivisionError" ]
        ELSE [ status |-> "returned",
               accuracy |-> << counts[1], counts[2] >>,
               perplexity_exp_of |-> << SumSeq(loss), Len(loss) >> ]

\* the Trainer calls compute_metrics on the predictions of an evaluation
Evaluate ==
    /\ pc = "eval"
    /\ metrics.status = "none"
    /\ \E sh \in EvalShapes :
        \E P \in [1..sh[1] -> [1..sh[2] -> PredIds]],
           L \in [1..sh[1] -> [1..sh[2] -> LabelIds]] :
            LET ep == [ predictions |-> P, label_ids |-> L,
                        losses |-> [b \in 1..sh[1] |-> b] ]
            IN  /\ eval_preds' = ep
                /\ metrics' = ComputeMetrics(ep)
    /\ UNCHANGED << pc, error, argVars, cfgVars, dataVars, runVars, tokVars,
                    saveVars, logits_in, logits_out >>

InitMetrics ==
    /\ pc = "eval"
    /\ output_dir = {}
    /\ IdleTrain /\ IdleTokenizer /\ IdleSave /\ IdleEval

NextMetrics == Evaluate

SpecMetrics == InitMetrics /\ [][NextMetrics]_vars

----------------------------------------------------------------------------
(* preprocess_logits_for_metrics, lines 153-167, on the shapes of tensors *)

RECURSIVE Numel(_)
Numel(shape) == IF shape = << >> THEN 1 ELSE Head(shape) * Numel(Tail(shape))

\* shape of torch.argmax(t, dim=-1) and of torch.mean(t, dim=-1)
ReduceLastDim(shape) == SubSeq(shape, 1, Len(shape) - 1)

\* shape of logits[..., :-1, :]
SliceLogits(shape) ==
    [ shape EXCEPT ![Len(shape) - 1] = IF @ > 0 THEN @ - 1 ELSE 0 ]

\* shape of labels[..., 1:]
SliceLabels(shape) ==
    [ shape EXCEPT ![Len(shape)] = IF @ > 0 THEN @ - 1 ELSE 0 ]

\* shape of t.view(-1, n): << >> stands for the RuntimeError
ViewRows(shape, n) ==
    IF n = 0 \/ Numel(shape) % n # 0 THEN << >>
    ELSE << Numel(shape) \div n, n >>

\* shape of t.view(n, -1): << >> stands for the RuntimeError
ViewCols(shape, n) ==
    IF n = 0 \/ Numel(shape) % n # 0 THEN << >>
    ELSE << n, Numel(shape) \div n >>

\* preprocess_logits_for_metrics(logits, labels), len(tokenizer) = t
PreprocessLogitsForMetrics(logits, labels, t) ==
    LET pred_ids == ReduceLastDim(logits)
        shift_logits == ViewRows(SliceLogits(logits), t)
        shift_labels == << Numel(SliceLabels(labels)) >>
    IN  IF shift_logits = << >>
        THEN [ status |-> "RuntimeError" ]
        ELSE IF shift_logits[1] # shift_labels[1]
        THEN [ status |-> "ValueError" ]
        ELSE LET loss == << shift_logits[1] >>
                 perRow == ViewCols(loss, logits[1])
             IN  IF perRow = << >>
                 THEN [ status |-> "RuntimeError" ]
                 ELSE [ status |-> "returned",
                        pred_ids |-> pred_ids,
                        loss |-> ReduceLastDim(perRow) ]

\* the Trainer calls preprocess_logits_for_metrics on a batch
Preprocess ==
    /\ pc = "eval"
    /\ logits_out.status = "none"
    /\ \E b \in 1..MaxDim, q \in 1..MaxDim, v \in 1..MaxDim, t \in 1..MaxDim :
           /\ logits_in' = [ logits |-> << b, q, v >>, labels |-> << b, q >>,
                             tokenizer_len |-> t ]
           /\ logits_out' = PreprocessLogitsForMetrics(<< b, q, v >>,
                                                       << b, q >>, t)
    /\ UNCHANGED << pc, error, argVars, cfgVars, dataVars, runVars, tokVars,
                    saveVars, eval_preds, metrics >>

NextLogits == Preprocess

SpecLogits == InitMetrics /\ [][NextLogits]_vars

----------------------------------------------------------------------------
(* Properties of train() *)

\* the name starts with "checkpoint-"
HasCheckpointPrefix(name) ==
    /\ Len(name) >= Len(CkptPrefix)
    /\ \A i \in 1..Len(CkptPrefix) : name[i] = CkptPrefix[i]

\* trainer.train has been called
TrainingStarted == pc \in { "save_state", "final_save", "done" }

\* the run is over
RunEnded == pc \in { "done", "failed" }

\* the mode of the only start agrees with the directory's content then
StartedInRightMode ==
    /\ Len(trainStarts) = 1
    /\ trainStarts[1] \in { "resume", "fresh" }
    /\ trainStarts[1] = "resume" <=>
           \E name \in dirAtStart : HasCheckpointPrefix(name)

\* C1 as stated: every run, also one that fails before line 210, starts
\* training exactly once, resuming iff output_dir holds a checkpoint-* entry.
C1_EveryRunStartsOnce == RunEnded => StartedInRightMode

\* C1, amended: a run that reaches line 210 starts training exactly once,
\* with resume_from_checkpoint=True iff output_dir held an entry named
\* checkpoint-* at that moment and fresh otherwise; a run that fails before
\* line 210 never starts training.
C1_ResumeIffCheckpoint ==
    /\ TrainingStarted => StartedInRightMode
    /\ ~TrainingStarted => trainStarts = << >>
    /\ pc = "done" => TrainingStarted

\* a finished run resumed because of an entry named exactly "checkpoint-",
\* beside entries that only look like checkpoints
C1_Witness ==
    /\ pc = "done"
    /\ trainStarts = << "resume" >>
    /\ dirAtStart = DirNames \ {CheckpointName}

\* the RoPE patch applies to the loaded config
RopeApplies ==
    LET mpe == config_loaded.max_position_embeddings
    IN  mpe # Absent /\ mpe[1] # 0 /\ model_max_length > mpe[1]

\* lines 111-115 have run
ConfigPatched == pc \notin { "parse", "config", "rope" }

\* C2: after lines 106-115 rope_scaling is {linear, F} exactly when
\* max_position_embeddings is present, non-zero and below model_max_length;
\* then F is the least integer with F * max_position_embeddings >=
\* model_max_length and F >= 2; otherwise rope_scaling is as loaded; and
\* use_cache is False in all cases.
C2_RopeScaling ==
    ConfigPatched =>
        /\ config.use_cache = FALSE
        /\ config.max_position_embeddings
               = config_loaded.max_position_embeddings
        /\ IF RopeApplies
           THEN LET mpe == config_loaded.max_position_embeddings[1]
                    F == config.rope_scaling[1].factor
                IN  /\ config.rope_scaling # Absent
                    /\ config.rope_scaling[1].type = "linear"
                    /\ F >= 2
                    /\ F * mpe >= model_max_length
                    /\ (F - 1) * mpe < model_max_length
           ELSE config.rope_scaling = config_loaded.rope_scaling

\* a context of 3 over a model of 2 that came with another scaling: factor 2
C2_Witness ==
    /\ pc = "model"
    /\ model_max_length = 3
    /\ config_loaded.max_position_embeddings = Some(2)
    /\ config_loaded.rope_scaling # Absent
    /\ config.rope_scaling = Some([type |-> "linear", factor |-> 2])

\* line 131 has run
AssertPassed ==
    pc \notin { "parse", "config", "rope", "model", "tokenizer", "assert" }

\* C5: without train_data_path the run ends at line 131 with the assertion
\* 'Please provide a training data file.', and it opens no file, builds no
\* dataset and no Trainer, never starts training and writes nothing into
\* output_dir.
C5_MissingTrainData ==
    (train_data_path = None /\ AssertPassed) =>
        /\ pc = "failed"
        /\ error = "AssertionError: Please provide a training data file."
        /\ opened = << >>
        /\ raw_train_data = "unbound" /\ raw_eval_data = "unbound"
        /\ train_dataset = "unbound" /\ eval_dataset = "unbound"
        /\ trainer = Absent
        /\ trainStarts = << >>
        /\ dir_writes = {}
        /\ collected = {}
        /\ \A p \in Procs : written[p] = Absent

\* such a run, asked to evaluate, with an eval file and old checkpoints
C5_Witness ==
    /\ pc = "failed"
    /\ train_data_path = None
    /\ eval_data_path # None
    /\ do_eval
    /\ CheckpointName \in output_dir
    /\ error = "AssertionError: Please provide a training data file."

----------------------------------------------------------------------------
(* Properties of compute_metrics *)

\* positions (b, i) whose next label counts, and those predicted right
Counted ==
    { pos \in (DOMAIN eval_preds.label_ids) \X (1..MaxCells) :
        /\ pos[2] + 1 \in DOMAIN eval_preds.label_ids[pos[1]]
        /\ eval_preds.label_ids[pos[1]][pos[2] + 1] # IgnoreIndex }

Correct ==
    { pos \in Counted :
        eval_preds.predictions[pos[1]][pos[2]]
            = eval_preds.label_ids[pos[1]][pos[2] + 1] }

\* metrics.accuracy is the quotient Cardinality(Correct) / Cardinality(Counted)
AccuracyIsNextToken ==
    /\ metrics.status = "returned"
    /\ metrics.accuracy[2] # 0
    /\ metrics.accuracy[1] * Cardinality(Counted)
           = Cardinality(Correct) * metrics.accuracy[2]

\* C3 as stated: for every batch compute_metrics returns the accuracy
\* |Correct| / |Counted|, also when no label counts.
C3_AlwaysReturnsAccuracy ==
    metrics.status # "none" => AccuracyIsNextToken

\* C3, amended: when at least one position has a next label other than -100,
\* compute_metrics returns accuracy = |Correct| / |Counted|, comparing the
\* prediction at i with the label at i + 1 and skipping labels of -100; when
\* no position has one, it raises ZeroDivisionError and returns nothing.
C3_NextTokenAccuracy ==
    metrics.status # "none" =>
        IF Counted # {} THEN AccuracyIsNextToken
        ELSE metrics.status = "ZeroDivisionError"

\* two rows of three; a prediction equal to its own label but not to the
\* next one, an ignored label, and one right prediction out of three counted
C3_Witness ==
    /\ metrics.status = "returned"
    /\ eval_preds.predictions = << << 1, 0, 1 >>, << 0, 0, 0 >> >>
    /\ eval_preds.label_ids = << << 1, 0, IgnoreIndex >>, << 1, 1, 0 >> >>
    /\ metrics.accuracy = << 1, 3 >>

----------------------------------------------------------------------------
(* Properties of preprocess_logits_for_metrics *)

\* C6 as stated: pred_ids and loss are both of shape (batch_size x seq_len).
C6_BothBatchBySeq ==
    logits_out.status = "returned" =>
        /\ logits_out.pred_ids = logits_in.labels
        /\ logits_out.loss = logits_in.labels

----------------------------------------------------------------------------
(* Properties of initialize_tokenizer *)

RECURSIVE ColumnTotal(_, _, _)
ColumnTotal(emb, c, m) ==
    IF m = 0 THEN 0 ELSE emb[m][c].n + ColumnTotal(emb, c, m - 1)

\* the last k rows of emb are the mean of its rows before them
LastRowsAreMean(emb, k) ==
    \A i \in (Len(emb) - k + 1)..Len(emb) : \A c \in 1..2 :
        /\ emb[i][c].d # 0
        /\ emb[i][c].n * (Len(emb) - k)
               = emb[i][c].d * ColumnTotal(emb, c, Len(emb) - k)

\* the rows of emb before the last k are those of the matrix before the call
EarlierRowsKept(emb, old, k) ==
    \A i \in 1..(Len(emb) - k) : i \in DOMAIN old => emb[i] = old[i]

\* C4: after initialize_tokenizer the EndToken values are special tokens of
\* the vocabulary, the pad token is the unknown token, both embedding
\* matrices have len(tokenizer) rows; with k > 0 new tokens the last k rows
\* of each are the mean of the rows before them and those earlier rows are
\* unchanged; with k = 0 no row is changed.
C4_TokenizerExtension ==
    tokenizer # Absent =>
        LET tok == tokenizer[1]
            k == num_new_tokens
        IN  /\ Range(EndTokenValues) \subseteq Range(tok.vocab)
            /\ tok.additional_special_tokens = EndTokenValues
            /\ tok.pad_token = tok.unk_token
            /\ tok.unk_token # None
            /\ Len(input_embeddings) = Len(tok.vocab)
            /\ Len(output_embeddings) = Len(tok.vocab)
            /\ k \in 0..Len(EndTokenValues)
            /\ LastRowsAreMean(input_embeddings, k)
            /\ LastRowsAreMean(output_embeddings, k)
            /\ EarlierRowsKept(input_embeddings, emb_before[1], k)
            /\ EarlierRowsKept(output_embeddings, emb_before[2], k)

\* two tokens added to a two-row model: rows 3 and 4 are the mean of 1 and 2
C4_Witness ==
    /\ tokenizer # Absent
    /\ num_new_tokens = 2
    /\ emb_before = << << Row(0, 1), Row(2, 0) >>, << Row(1, 1), Row(1, 1) >> >>
    /\ Len(input_embeddings) = 4
    /\ input_embeddings[1] = Row(0, 1)
    /\ input_embeddings[3] = << [n |-> 2, d |-> 2], [n |-> 1, d |-> 2] >>
    /\ input_embeddings[4] = input_embeddings[3]
    /\ output_embeddings[4] = << [n |-> 2, d |-> 2], [n |-> 2, d |-> 2] >>

----------------------------------------------------------------------------
(* Properties of safe_save_model_for_hf_trainer *)

\* C7: every process that calls the function collects the state dict; a
\* process writes iff it called and its should_save is true; what it writes is
\* the whole state dict with every tensor on the CPU.
C7_OnlySaversWrite ==
    \A p \in Procs :
        /\ written[p] # Absent <=> (p \in collected /\ should_save[p])
        /\ written[p] # Absent =>
               \A k \in Keys : written[p][1][k] = [key |-> k, device |-> "cpu"]
        /\ (dir_writes # {}) =>
               \E q \in collected : should_save[q]

\* both processes called: process 1, on the GPU, wrote; process 2 did not
C7_Witness ==
    /\ collected = Procs
    /\ should_save[1] /\ ~should_save[2]
    /\ \A k \in Keys : device[1][k] = "cuda"
    /\ written[1] # Absent
    /\ written[2] = Absent

====
